---------------------------- MODULE Spec2Model ----------------------------
(***************************************************************************)
(* Model of the seller-apis stock/price synchronisation scripts:           *)
(*   src/seller.py  (Ozon, one account, OffsetCount pagination)            *)
(*   src/market.py  (Yandex.Market, FBS and DBS accounts, CursorToken)     *)
(*                                                                         *)
(* Text is a sequence of one-character strings.  A Python value read from  *)
(* a spreadsheet row or a JSON answer is a tagged record: see PyStrOf,     *)
(* PyIntOf, PyNone.                                                        *)
(***************************************************************************)
EXTENDS Integers, Sequences, FiniteSets, TLC

VARIABLES
    \* arguments / locals shared by the reconciliation calls and main
    watch_remnants, offer_ids, stocks, prices,
    \* a single reconciliation call: the function called, the offer-id list
    \* as it was handed over, the exception raised
    called, arg_offer_ids, raised,
    \* a call list(divide(lst, n)): its arguments, the chunks it gave, the
    \* exception raised, whether it was made
    lst, n, chunks, div_err, div_state,
    \* a call get_offer_ids: the pagination strategy of the script, the
    \* cursor (page / last_id), the entries gathered, the requests sent and
    \* the answers received so far, where the call stands, what it returned
    strategy, cursor, product_list, req_log, resp_log, fetch_state, fetched,
    \* a run of main: the script, the position in main, the account being
    \* synchronised, the state of every account's cycle, what the current
    \* cycle fetched and batched, the list(divide(...)) being uploaded and
    \* the index of its next chunk, the upload requests of the current cycle
    \* and how many of them were answered
    program, pc, acct, cycle, run, chunk_list, chunk_i, sent, acked

shared == <<watch_remnants, offer_ids, stocks, prices>>
cvars == <<called, arg_offer_ids, raised>>
dvars == <<lst, n, chunks, div_err, div_state>>
fvars == <<strategy, cursor, product_list, req_log, resp_log, fetch_state, fetched>>
mvars == <<program, pc, acct, cycle, run, chunk_list, chunk_i, sent, acked>>
vars == <<shared, cvars, dvars, fvars, mvars>>

(***************************************************************************)
(* Bounds of the model.                                                    *)
(***************************************************************************)
\* longest remnant list handed to create_stocks / create_prices
MaxRemnants == 2
\* longest offer-id list handed to create_stocks / create_prices
MaxCatalog == 3
\* longest list handed to divide, and the range of chunk sizes tried
MaxList == 5
MaxSize == 5
\* sizes down to -MaxNegSize are tried
MaxNegSize == 2
\* page requests one get_offer_ids call is followed for
MaxRequests == 3
\* the chunk sizes main hands to divide, scaled down to the lists of the
\* model (the scripts use 100 and 900 for Ozon, 2000 for Yandex.Market)
SellerStockBatch == 2
SellerPriceBatch == 2
MarketStockBatch == 2

(***************************************************************************)
(* Python values and the conversions the code applies to them.             *)
(***************************************************************************)
PyNone == [t |-> "none"]
PyStrOf(s) == [t |-> "str", v |-> s]
PyIntOf(i) == [t |-> "int", v |-> i]

Digits == <<"0", "1", "2", "3", "4", "5", "6", "7", "8", "9">>

IsDigit(c) == \E d \in 1..10 : Digits[d] = c

DigitVal(c) == (CHOOSE d \in 1..10 : Digits[d] = c) - 1

RECURSIVE NatText(_)
\* decimal text of a natural number
NatText(i) ==
    IF i < 10 THEN <<Digits[i + 1]>>
    ELSE NatText(i \div 10) \o <<Digits[(i % 10) + 1]>>

\* str(v)
PyStr(v) ==
    CASE v.t = "none" -> <<"N", "o", "n", "e">>
      [] v.t = "str"  -> v.v
      [] v.t = "int"  -> IF v.v < 0 THEN <<"-">> \o NatText(-v.v) ELSE NatText(v.v)

RECURSIVE StripLeft(_)
StripLeft(s) == IF s # <<>> /\ Head(s) = " " THEN StripLeft(Tail(s)) ELSE s

RECURSIVE StripRight(_)
StripRight(s) ==
    IF s # <<>> /\ s[Len(s)] = " " THEN StripRight(SubSeq(s, 1, Len(s) - 1)) ELSE s

RECURSIVE DigitsVal(_)
\* value of a non-empty text of digits
DigitsVal(s) ==
    IF Len(s) = 1 THEN DigitVal(s[1])
    ELSE 10 * DigitsVal(SubSeq(s, 1, Len(s) - 1)) + DigitVal(s[Len(s)])

\* int(v): [err, val]; a text is stripped, may carry one sign, and must then
\* be digits only
PyInt(v) ==
    CASE v.t = "none" -> [err |-> "TypeError", val |-> 0]
      [] v.t = "int"  -> [err |-> "none", val |-> v.v]
      [] v.t = "str"  ->
           LET s == StripRight(StripLeft(v.v))
               signed == s # <<>> /\ Head(s) \in {"-", "+"}
               body == IF signed THEN Tail(s) ELSE s
           IN  IF body # <<>> /\ \A k \in 1..Len(body) : IsDigit(body[k])
               THEN [err |-> "none",
                     val |-> IF signed /\ Head(s) = "-"
                             THEN 0 - DigitsVal(body) ELSE DigitsVal(body)]
               ELSE [err |-> "ValueError", val |-> 0]

\* x in l
InList(x, l) == \E k \in 1..Len(l) : l[k] = x

\* l.remove(x): drops the first element equal to x (x is in l)
ListRemove(l, x) ==
    LET k == CHOOSE j \in 1..Len(l) :
                 l[j] = x /\ \A h \in 1..(j - 1) : l[h] # x
    IN  SubSeq(l, 1, k - 1) \o SubSeq(l, k + 1, Len(l))

\* price.split(".")[0]
SplitDotFirst(price) ==
    IF \E k \in 1..Len(price) : price[k] = "."
    THEN SubSeq(price, 1,
                (CHOOSE k \in 1..Len(price) :
                     price[k] = "." /\ \A h \in 1..(k - 1) : price[h] # ".") - 1)
    ELSE price

\* re.sub("[^0-9]", "", price.split(".")[0]); price is a str
price_conversion(price) == SelectSeq(SplitDotFirst(price), IsDigit)

(***************************************************************************)
(* Reconciliation: create_stocks and create_prices of both scripts.        *)
(***************************************************************************)
\* a quantity rule without the special case of "1"
StockOf_OneIsOne(watch) ==
    IF PyStr(watch.qty) = <<">", "1", "0">> THEN [err |-> "none", val |-> 100]
    ELSE PyInt(watch.qty)

\* the quantity rule of create_stocks: [err, val]
StockOf(watch) ==
    LET count == PyStr(watch.qty)
    IN  IF count = <<">", "1", "0">> THEN [err |-> "none", val |-> 100]
        ELSE IF count = <<"1">> THEN [err |-> "none", val |-> 0]
        ELSE PyInt(watch.qty)

seller_stock_entry(offer_id, stock) == [offer_id |-> offer_id, stock |-> stock]

market_stock_entry(sku, warehouse_id, stock, date) ==
    [sku |-> sku, warehouseId |-> warehouse_id,
     items |-> <<[count |-> stock, type |-> "FIT", updatedAt |-> date]>>]

\* the "missing from the remnants" loop of seller.create_stocks
seller_zero_fill(acc, ids) ==
    acc \o [k \in 1..Len(ids) |-> seller_stock_entry(ids[k], 0)]

\* the "missing from the remnants" loop of market.create_stocks
market_zero_fill(acc, ids, warehouse_id, date) ==
    acc \o [k \in 1..Len(ids) |->
                  market_stock_entry(ids[k], warehouse_id, 0, date)]

\* a create_stocks that forgets to consume the matched offer id
RemoveMatched_Kept(ids, code) == ids

\* ids.remove(str(watch.get("Код"))) after a matched stock entry
RemoveMatched(ids, code) == ListRemove(ids, code)

RECURSIVE seller_stock_loop(_, _, _, _)
\* the loop over remnants of seller.create_stocks, from record i on:
\* [err, acc, ids]; an exception leaves ids as far as mutated
seller_stock_loop(remnants, i, acc, ids) ==
    IF i > Len(remnants)
    THEN [err |-> "none", stocks |-> acc, offer_ids |-> ids]
    ELSE LET watch == remnants[i]
             code == PyStr(watch.code)
         IN  IF InList(code, ids)
             THEN LET q == StockOf(watch)
                  IN  IF q.err # "none"
                      THEN [err |-> q.err, stocks |-> <<>>, offer_ids |-> ids]
                      ELSE seller_stock_loop(
                               remnants, i + 1,
                               Append(acc, seller_stock_entry(code, q.val)),
                               RemoveMatched(ids, code))
             ELSE seller_stock_loop(remnants, i + 1, acc, ids)

\* seller.create_stocks(remnants, ids): [err, acc, ids],
\* ids being the caller's list as the call leaves it
seller_create_stocks(remnants, ids) ==
    LET r == seller_stock_loop(remnants, 1, <<>>, ids)
    IN  IF r.err # "none" THEN r
        ELSE [err |-> "none",
              stocks |-> seller_zero_fill(r.stocks, r.offer_ids),
              offer_ids |-> r.offer_ids]

RECURSIVE market_stock_loop(_, _, _, _, _, _)
\* the loop over remnants of market.create_stocks
market_stock_loop(remnants, i, acc, ids, warehouse_id, date) ==
    IF i > Len(remnants)
    THEN [err |-> "none", stocks |-> acc, offer_ids |-> ids]
    ELSE LET watch == remnants[i]
             code == PyStr(watch.code)
         IN  IF InList(code, ids)
             THEN LET q == StockOf(watch)
                  IN  IF q.err # "none"
                      THEN [err |-> q.err, stocks |-> <<>>, offer_ids |-> ids]
                      ELSE market_stock_loop(
                               remnants, i + 1,
                               Append(acc,
                                      market_stock_entry(code, warehouse_id, q.val, date)),
                               RemoveMatched(ids, code), warehouse_id, date)
             ELSE market_stock_loop(remnants, i + 1, acc, ids,
                                    warehouse_id, date)

\* market.create_stocks(remnants, ids, warehouse_id), with the
\* timestamp it reads
market_create_stocks(remnants, ids, warehouse_id, date) ==
    LET r == market_stock_loop(remnants, 1, <<>>, ids, warehouse_id, date)
    IN  IF r.err # "none" THEN r
        ELSE [err |-> "none",
              stocks |-> market_zero_fill(r.stocks, r.offer_ids, warehouse_id, date),
              offer_ids |-> r.offer_ids]

\* a create_prices that prices an offer id once, like create_stocks does:
\* only the first record of a code is priced
PriceMatches_FirstOnly(remnants, i, ids) ==
    /\ InList(PyStr(remnants[i].code), ids)
    /\ \A h \in 1..(i - 1) : PyStr(remnants[h].code) # PyStr(remnants[i].code)

\* a create_prices that prices every record, in the catalog or not
PriceMatches_Always(remnants, i, ids) == TRUE

\* the condition under which create_prices emits an entry for record i
PriceMatches(remnants, i, ids) == InList(PyStr(remnants[i].code), ids)

\* the price entry of seller.create_prices: [err, entry]; price_conversion
\* is applied to watch.get("Цена") as it is
seller_price_entry(watch) ==
    IF watch.price.t # "str"
    THEN [err |-> "AttributeError", entry |-> <<>>]
    ELSE [err |-> "none",
          entry |-> [auto_action_enabled |-> "UNKNOWN", currency_code |-> "RUB",
                     offer_id |-> PyStr(watch.code), old_price |-> "0",
                     price |-> price_conversion(watch.price.v)]]

\* the price entry of market.create_prices: int(price_conversion(...))
market_price_entry(watch) ==
    IF watch.price.t # "str" THEN [err |-> "AttributeError", entry |-> <<>>]
    ELSE LET p == PyInt(PyStrOf(price_conversion(watch.price.v)))
         IN  IF p.err # "none" THEN [err |-> p.err, entry |-> <<>>]
             ELSE [err |-> "none",
                   entry |-> [id |-> PyStr(watch.code),
                              price |-> [value |-> p.val, currencyId |-> "RUR"]]]

RECURSIVE seller_price_loop(_, _, _, _)
seller_price_loop(remnants, i, acc, ids) ==
    IF i > Len(remnants) THEN [err |-> "none", prices |-> acc]
    ELSE IF PriceMatches(remnants, i, ids)
         THEN LET e == seller_price_entry(remnants[i])
              IN  IF e.err # "none" THEN [err |-> e.err, prices |-> <<>>]
                  ELSE seller_price_loop(remnants, i + 1,
                                         Append(acc, e.entry), ids)
         ELSE seller_price_loop(remnants, i + 1, acc, ids)

\* seller.create_prices(remnants, ids): [err, acc]
seller_create_prices(remnants, ids) ==
    seller_price_loop(remnants, 1, <<>>, ids)

RECURSIVE market_price_loop(_, _, _, _)
market_price_loop(remnants, i, acc, ids) ==
    IF i > Len(remnants) THEN [err |-> "none", prices |-> acc]
    ELSE IF PriceMatches(remnants, i, ids)
         THEN LET e == market_price_entry(remnants[i])
              IN  IF e.err # "none" THEN [err |-> e.err, prices |-> <<>>]
                  ELSE market_price_loop(remnants, i + 1,
                                         Append(acc, e.entry), ids)
         ELSE market_price_loop(remnants, i + 1, acc, ids)

\* market.create_prices(remnants, ids): [err, acc]
market_create_prices(remnants, ids) ==
    market_price_loop(remnants, 1, <<>>, ids)

(***************************************************************************)
(* The batcher: divide of seller.py, consumed by list(...).                *)
(***************************************************************************)
RECURSIVE RangeFrom(_, _, _)
RangeFrom(i, stop, step) ==
    IF (step > 0 /\ i < stop) \/ (step < 0 /\ i > stop)
    THEN <<i>> \o RangeFrom(i + step, stop, step)
    ELSE <<>>

\* range(start, stop, step): [err, seq]
PyRange(start, stop, step) ==
    IF step = 0 THEN [err |-> "ValueError", seq |-> <<>>]
    ELSE [err |-> "none", seq |-> RangeFrom(start, stop, step)]

\* an index of a slice, brought into 0..len(l)
SliceIndex(l, a) ==
    IF a < 0 THEN (IF Len(l) + a < 0 THEN 0 ELSE Len(l) + a)
    ELSE IF a > Len(l) THEN Len(l) ELSE a

\* l[a:b]
PySlice(l, a, b) == SubSeq(l, SliceIndex(l, a) + 1, SliceIndex(l, b))

\* a chunk that loses its last element
ChunkAt_Short(l, i, size) == PySlice(l, i, i + size - 1)

\* lst[i : i + n]
ChunkAt(l, i, size) == PySlice(l, i, i + size)

\* list(divide(lst, n)): [err, chunks]
divide(l, size) ==
    LET r == PyRange(0, Len(l), size)
    IN  IF r.err # "none" THEN [err |-> r.err, chunks |-> <<>>]
        ELSE [err |-> "none",
              chunks |-> [k \in 1..Len(r.seq) |-> ChunkAt(l, r.seq[k], size)]]

IdleDivide ==
    /\ lst = <<>>
    /\ n = 1
    /\ chunks = <<>>
    /\ div_err = "none"
    /\ div_state = "idle"

(***************************************************************************)
(* Catalog discovery: get_offer_ids of both scripts.                       *)
(***************************************************************************)
\* the truth value of a Python value
Truthy(v) ==
    CASE v.t = "none" -> FALSE
      [] v.t = "str"  -> v.v # <<>>
      [] v.t = "int"  -> v.v # 0

\* a loop that only ends on an absent token
CursorDone_AbsentOnly(page) == page = PyNone

\* "if not page: break" of market.get_offer_ids
CursorDone(page) == ~Truthy(page)

\* "if total == len(product_list): break" of seller.get_offer_ids
OffsetDone(total, products) == total = Len(products)

\* the offer ids market.get_offer_ids returns
market_offer_ids(products) == [k \in 1..Len(products) |-> products[k].offer.shopSku]

\* the offer ids seller.get_offer_ids returns
seller_offer_ids(products) == [k \in 1..Len(products) |-> products[k].offer_id]

IdleFetch ==
    /\ strategy = "none"
    /\ cursor = PyNone
    /\ product_list = <<>>
    /\ req_log = <<>>
    /\ resp_log = <<>>
    /\ fetch_state = "idle"
    /\ fetched = <<>>

\* no cycle under way
NoRun == [acct |-> "none", catalog |-> <<>>, stock_chunks |-> <<>>, price_chunks |-> <<>>]

IdleMain ==
    /\ program = "none"
    /\ pc = "idle"
    /\ acct = 0
    /\ cycle = <<>>
    /\ run = NoRun
    /\ chunk_list = <<>>
    /\ chunk_i = 0
    /\ sent = <<>>
    /\ acked = 0

(***************************************************************************)
(* Inputs.                                                                 *)
(***************************************************************************)
Txt7 == <<"7">>
TxtA == <<"A">>
TxtB == <<"B">>

\* offer ids a marketplace answers with
OfferIds == {Txt7, TxtA, TxtB}

\* values of the "Код" cell: a numeric cell, a text cell, a missing key
Codes == {PyIntOf(7), PyStrOf(TxtA)}

\* values of the "Количество" and "Цена" cells of one row
QtyPrice ==
    { <<PyStrOf(<<">", "1", "0">>), PyStrOf(<<"5", "'", "9", "9", "0", ".", "0", "0", " ", "r", ".">>)>>,
      <<PyStrOf(<<"1">>),           PyStrOf(<<"1", "2", ".", "5", "0", " ", "x">>)>>,
      <<PyStrOf(<<"1", "2">>),      PyStrOf(<<"n", "o">>)>>,
      <<PyStrOf(<<"a", "b", "c">>), PyStrOf(<<"7">>)>>,
      <<PyStrOf(<<"-", "3">>),      PyStrOf(<<".", "5", "0">>)>> }

RemnantRecords ==
    { [code |-> c, qty |-> qp[1], price |-> qp[2]] : c \in Codes, qp \in QtyPrice }
    \cup { [code |-> PyNone, qty |-> PyIntOf(5), price |-> PyStrOf(<<"3", "0">>)],
           [code |-> PyStrOf(TxtB), qty |-> PyIntOf(3), price |-> PyNone] }

SeqsUpTo(S, m) == UNION { [1..k -> S] : k \in 0..m }

RemnantLists == SeqsUpTo(RemnantRecords, MaxRemnants)

Catalogs == SeqsUpTo(OfferIds, MaxCatalog)

\* the rows and offer ids the runs of main are fed with
MainRecords ==
    { [code |-> PyStrOf(TxtA), qty |-> PyStrOf(<<">", "1", "0">>),
       price |-> PyStrOf(<<"5", "'", "9", "9", "0", ".", "0", "0", " ", "r", ".">>)],
      [code |-> PyStrOf(TxtA), qty |-> PyStrOf(<<"1", "2">>), price |-> PyNone],
      [code |-> PyIntOf(7), qty |-> PyStrOf(<<"a", "b", "c">>), price |-> PyStrOf(<<"7">>)] }

MainRemnantLists == SeqsUpTo(MainRecords, MaxRemnants)

MainCatalogs == SeqsUpTo({TxtA, Txt7}, MaxCatalog)

Warehouse == "WH"
Now == "T0"

(***************************************************************************)
(* One reconciliation call on arbitrary arguments.                         *)
(***************************************************************************)
InitReconcile ==
    /\ watch_remnants \in RemnantLists
    /\ offer_ids \in Catalogs
    /\ stocks = <<>>
    /\ prices = <<>>
    /\ called = "none"
    /\ arg_offer_ids = <<>>
    /\ raised = "none"
    /\ IdleDivide
    /\ IdleFetch
    /\ IdleMain

CallSellerCreateStocks ==
    /\ called = "none"
    /\ LET r == seller_create_stocks(watch_remnants, offer_ids)
       IN  /\ stocks' = r.stocks
           /\ offer_ids' = r.offer_ids
           /\ raised' = r.err
    /\ called' = "seller.create_stocks"
    /\ arg_offer_ids' = offer_ids
    /\ UNCHANGED <<watch_remnants, prices, dvars, fvars, mvars>>

CallMarketCreateStocks ==
    /\ called = "none"
    /\ LET r == market_create_stocks(watch_remnants, offer_ids, Warehouse, Now)
       IN  /\ stocks' = r.stocks
           /\ offer_ids' = r.offer_ids
           /\ raised' = r.err
    /\ called' = "market.create_stocks"
    /\ arg_offer_ids' = offer_ids
    /\ UNCHANGED <<watch_remnants, prices, dvars, fvars, mvars>>

CallSellerCreatePrices ==
    /\ called = "none"
    /\ LET r == seller_create_prices(watch_remnants, offer_ids)
       IN  /\ prices' = r.prices
           /\ raised' = r.err
    /\ called' = "seller.create_prices"
    /\ arg_offer_ids' = offer_ids
    /\ UNCHANGED <<watch_remnants, offer_ids, stocks, dvars, fvars, mvars>>

CallMarketCreatePrices ==
    /\ called = "none"
    /\ LET r == market_create_prices(watch_remnants, offer_ids)
       IN  /\ prices' = r.prices
           /\ raised' = r.err
    /\ called' = "market.create_prices"
    /\ arg_offer_ids' = offer_ids
    /\ UNCHANGED <<watch_remnants, offer_ids, stocks, dvars, fvars, mvars>>

NextReconcile ==
    \/ CallSellerCreateStocks
    \/ CallMarketCreateStocks
    \/ CallSellerCreatePrices
    \/ CallMarketCreatePrices

SpecReconcile == InitReconcile /\ [][NextReconcile]_vars

IdleReconcile ==
    /\ watch_remnants = <<>>
    /\ offer_ids = <<>>
    /\ stocks = <<>>
    /\ prices = <<>>
    /\ called = "none"
    /\ arg_offer_ids = <<>>
    /\ raised = "none"

(***************************************************************************)
(* One call list(divide(lst, n)) on arbitrary arguments.                   *)
(***************************************************************************)
Items == {1, 2}

InitDivide ==
    /\ lst \in SeqsUpTo(Items, MaxList)
    /\ n \in (0 - MaxNegSize)..MaxSize
    /\ chunks = <<>>
    /\ div_err = "none"
    /\ div_state = "ready"
    /\ IdleReconcile
    /\ IdleFetch
    /\ IdleMain

\* the call returns the chunks
DivideReturns ==
    /\ div_state = "ready"
    /\ divide(lst, n).err = "none"
    /\ chunks' = divide(lst, n).chunks
    /\ div_state' = "returned"
    /\ UNCHANGED <<lst, n, div_err, shared, cvars, fvars, mvars>>

\* the call raises
DivideRaises ==
    /\ div_state = "ready"
    /\ divide(lst, n).err # "none"
    /\ div_err' = divide(lst, n).err
    /\ div_state' = "raised"
    /\ UNCHANGED <<lst, n, chunks, shared, cvars, fvars, mvars>>

NextDivide == DivideReturns \/ DivideRaises

SpecDivide == InitDivide /\ [][NextDivide]_vars

(***************************************************************************)
(* One call get_offer_ids against a server that answers as it likes.       *)
(***************************************************************************)
TokEmpty == PyStrOf(<<>>)
TokP1 == PyStrOf(<<"p", "1">>)
TokP2 == PyStrOf(<<"p", "2">>)

\* the offer ids of one page
PageIds == { <<>>, <<TxtA>>, <<TxtA, TxtB>> }

\* answers of GET offer-mapping-entries: [entries, next]
CursorResponses ==
    { [entries |-> [k \in 1..Len(p) |-> [offer |-> [shopSku |-> p[k]]]], next |-> t] :
        p \in PageIds, t \in {TokEmpty, PyNone, TokP1, TokP2} }

\* answers of POST /v2/product/list: [entries, total, next]
OffsetResponses ==
    { [entries |-> [k \in 1..Len(p) |-> [offer_id |-> p[k]]], total |-> c, next |-> t] :
        p \in PageIds, c \in 0..3, t \in {TokEmpty, TokP1} }

InitFetch ==
    /\ strategy \in {"CursorToken", "OffsetCount"}
    /\ cursor = TokEmpty
    /\ product_list = <<>>
    /\ req_log = <<>>
    /\ resp_log = <<>>
    /\ fetch_state = "looping"
    /\ fetched = <<>>
    /\ IdleReconcile
    /\ IdleDivide
    /\ IdleMain

\* one turn of the loop of market.get_offer_ids whose request is answered,
\* with the return that follows the last turn
MarketGetProductList ==
    /\ strategy = "CursorToken"
    /\ fetch_state = "looping"
    /\ Len(req_log) < MaxRequests
    /\ \E resp \in CursorResponses :
          /\ req_log' = Append(req_log, cursor)
          /\ resp_log' = Append(resp_log, resp)
          /\ product_list' = product_list \o resp.entries
          /\ cursor' = resp.next
          /\ IF CursorDone(resp.next)
             THEN /\ fetch_state' = "returned"
                  /\ fetched' = market_offer_ids(product_list')
             ELSE UNCHANGED <<fetch_state, fetched>>
    /\ UNCHANGED <<strategy, shared, cvars, dvars, mvars>>

\* one turn of the loop of seller.get_offer_ids whose request is answered
SellerGetProductList ==
    /\ strategy = "OffsetCount"
    /\ fetch_state = "looping"
    /\ Len(req_log) < MaxRequests
    /\ \E resp \in OffsetResponses :
          /\ req_log' = Append(req_log, cursor)
          /\ resp_log' = Append(resp_log, resp)
          /\ product_list' = product_list \o resp.entries
          /\ cursor' = resp.next
          /\ IF OffsetDone(resp.total, product_list')
             THEN /\ fetch_state' = "returned"
                  /\ fetched' = seller_offer_ids(product_list')
             ELSE UNCHANGED <<fetch_state, fetched>>
    /\ UNCHANGED <<strategy, shared, cvars, dvars, mvars>>

\* a request that raise_for_status() turns into an exception
GetProductListFails ==
    /\ fetch_state = "looping"
    /\ Len(req_log) < MaxRequests
    /\ req_log' = Append(req_log, cursor)
    /\ fetch_state' = "raised"
    /\ UNCHANGED <<strategy, cursor, product_list, resp_log, fetched,
                   shared, cvars, dvars, mvars>>

NextFetch == MarketGetProductList \/ SellerGetProductList \/ GetProductListFails

SpecFetch == InitFetch /\ [][NextFetch]_vars

(***************************************************************************)
(* main of seller.py (one account) and of market.py (FBS, then DBS).       *)
(***************************************************************************)
AccountsOf(prog) == IF prog = "seller" THEN <<"OZON">> ELSE <<"FBS", "DBS">>

AccountSet(prog) == { AccountsOf(prog)[k] : k \in 1..Len(AccountsOf(prog)) }

Current == AccountsOf(program)[acct]

WarehouseOf(a) == IF a = "FBS" THEN "WAREHOUSE_FBS_ID" ELSE "WAREHOUSE_DBS_ID"

\* a handler that goes on with the next account of the list
ExceptHandler_NextAccount(prog, a) ==
    IF a < Len(AccountsOf(prog))
    THEN [pc |-> "get_offer_ids", acct |-> a + 1]
    ELSE [pc |-> "exit", acct |-> a]

\* the except clauses of main: the one try block spans all accounts, the
\* handler prints and main returns
ExceptHandler(prog, a) == [pc |-> "exit", acct |-> a]

\* an exception raised inside the try block of main
Raise ==
    /\ cycle' = [cycle EXCEPT ![Current] = "Failed"]
    /\ pc' = ExceptHandler(program, acct).pc
    /\ acct' = ExceptHandler(program, acct).acct

\* a loop that walks the chunks from the last to the first
NextChunk_Reversed(cl, i) == cl[Len(cl) - i + 1]

\* the chunk the i-th turn of "for some_stock in list(divide(...))" sends
NextChunk(cl, i) == cl[i]

InitMain ==
    /\ program \in {"seller", "market"}
    /\ pc = IF program = "seller" THEN "get_offer_ids" ELSE "download_stock"
    /\ acct = 1
    /\ cycle = [a \in AccountSet(program) |-> "Idle"]
    /\ run = NoRun
    /\ chunk_list = <<>>
    /\ chunk_i = 1
    /\ sent = <<>>
    /\ acked = 0
    /\ IdleReconcile
    /\ IdleDivide
    /\ IdleFetch

\* get_offer_ids is called for the current account: its cycle starts
GetOfferIdsCall ==
    /\ pc = "get_offer_ids"
    /\ cycle' = [cycle EXCEPT ![Current] = "Fetching"]
    /\ run' = [NoRun EXCEPT !.acct = Current]
    /\ sent' = <<>>
    /\ acked' = 0
    /\ pc' = "get_offer_ids_wait"
    /\ UNCHANGED <<program, acct, chunk_list, chunk_i, shared, cvars, dvars, fvars>>

\* get_offer_ids returns the offer ids of the account
GetOfferIdsReturns ==
    /\ pc = "get_offer_ids_wait"
    /\ \E c \in MainCatalogs :
          /\ offer_ids' = c
          /\ run' = [run EXCEPT !.catalog = c]
    /\ cycle' = [cycle EXCEPT ![Current] = "Reconciling"]
    /\ pc' = IF program = "seller" THEN "download_stock" ELSE "create_stocks"
    /\ UNCHANGED <<program, acct, chunk_list, chunk_i, sent, acked,
                   watch_remnants, stocks, prices, cvars, dvars, fvars>>

\* get_offer_ids raises (a request failed)
GetOfferIdsFails ==
    /\ pc = "get_offer_ids_wait"
    /\ Raise
    /\ UNCHANGED <<program, run, chunk_list, chunk_i, sent, acked,
                   shared, cvars, dvars, fvars>>

\* download_stock returns the remnants
DownloadStock ==
    /\ pc = "download_stock"
    /\ watch_remnants' \in MainRemnantLists
    /\ pc' = IF program = "seller" THEN "create_stocks" ELSE "get_offer_ids"
    /\ UNCHANGED <<program, acct, cycle, run, chunk_list, chunk_i, sent, acked,
                   offer_ids, stocks, prices, cvars, dvars, fvars>>

\* download_stock raises: inside the try block of seller.main, before the
\* try block of market.main
DownloadStockFails ==
    /\ pc = "download_stock"
    /\ IF program = "seller"
       THEN Raise
       ELSE /\ pc' = "crashed"
            /\ UNCHANGED <<cycle, acct>>
    /\ UNCHANGED <<program, run, chunk_list, chunk_i, sent, acked,
                   shared, cvars, dvars, fvars>>

\* stocks = create_stocks(...) and list(divide(stocks, ...))
CreateStocks ==
    /\ pc = "create_stocks"
    /\ LET r == IF program = "seller"
                THEN seller_create_stocks(watch_remnants, offer_ids)
                ELSE market_create_stocks(watch_remnants, offer_ids,
                                          WarehouseOf(Current), Now)
           d == divide(r.stocks,
                       IF program = "seller" THEN SellerStockBatch ELSE MarketStockBatch)
       IN  /\ offer_ids' = r.offer_ids
           /\ IF r.err # "none" \/ d.err # "none"
              THEN /\ Raise
                   /\ UNCHANGED <<stocks, run, chunk_list, chunk_i>>
              ELSE /\ stocks' = r.stocks
                   /\ chunk_list' = d.chunks
                   /\ chunk_i' = 1
                   /\ run' = [run EXCEPT !.stock_chunks = d.chunks]
                   /\ cycle' = [cycle EXCEPT ![Current] = "Uploading"]
                   /\ pc' = "update_stocks"
                   /\ UNCHANGED acct
    /\ UNCHANGED <<program, sent, acked, watch_remnants, prices, cvars, dvars, fvars>>

\* update_stocks(some_stock, ...) sends its request
UpdateStocksSend ==
    /\ pc = "update_stocks"
    /\ chunk_i <= Len(chunk_list)
    /\ sent' = Append(sent, [kind |-> "stocks", acct |-> Current,
                             chunk |-> NextChunk(chunk_list, chunk_i)])
    /\ pc' = "update_stocks_wait"
    /\ UNCHANGED <<program, acct, cycle, run, chunk_list, chunk_i, acked,
                   shared, cvars, dvars, fvars>>

\* the request is answered and update_stocks returns
UpdateStocksReturns ==
    /\ pc = "update_stocks_wait"
    /\ acked' = acked + 1
    /\ chunk_i' = chunk_i + 1
    /\ pc' = "update_stocks"
    /\ UNCHANGED <<program, acct, cycle, run, chunk_list, sent,
                   shared, cvars, dvars, fvars>>

\* the request fails and update_stocks raises
UpdateStocksFails ==
    /\ pc = "update_stocks_wait"
    /\ Raise
    /\ UNCHANGED <<program, run, chunk_list, chunk_i, sent, acked,
                   shared, cvars, dvars, fvars>>

\* the loop over the stock chunks is over
StocksUploaded ==
    /\ pc = "update_stocks"
    /\ chunk_i > Len(chunk_list)
    /\ pc' = IF program = "seller" THEN "create_prices" ELSE "upload_prices"
    /\ UNCHANGED <<program, acct, cycle, run, chunk_list, chunk_i, sent, acked,
                   shared, cvars, dvars, fvars>>

\* seller.main: prices = create_prices(watch_remnants, offer_ids) and
\* list(divide(prices, 900))
SellerCreatePrices ==
    /\ pc = "create_prices"
    /\ LET r == seller_create_prices(watch_remnants, offer_ids)
           d == divide(r.prices, SellerPriceBatch)
       IN  IF r.err # "none" \/ d.err # "none"
           THEN /\ Raise
                /\ UNCHANGED <<prices, run, chunk_list, chunk_i>>
           ELSE /\ prices' = r.prices
                /\ chunk_list' = d.chunks
                /\ chunk_i' = 1
                /\ run' = [run EXCEPT !.price_chunks = d.chunks]
                /\ pc' = "update_price"
                /\ UNCHANGED <<cycle, acct>>
    /\ UNCHANGED <<program, sent, acked, watch_remnants, offer_ids, stocks,
                   cvars, dvars, fvars>>

\* update_price(some_price, ...) sends its request
UpdatePriceSend ==
    /\ pc = "update_price"
    /\ chunk_i <= Len(chunk_list)
    /\ sent' = Append(sent, [kind |-> "prices", acct |-> Current,
                             chunk |-> NextChunk(chunk_list, chunk_i)])
    /\ pc' = "update_price_wait"
    /\ UNCHANGED <<program, acct, cycle, run, chunk_list, chunk_i, acked,
                   shared, cvars, dvars, fvars>>

\* the request is answered and update_price returns
UpdatePriceReturns ==
    /\ pc = "update_price_wait"
    /\ acked' = acked + 1
    /\ chunk_i' = chunk_i + 1
    /\ pc' = "update_price"
    /\ UNCHANGED <<program, acct, cycle, run, chunk_list, sent,
                   shared, cvars, dvars, fvars>>

\* the request fails and update_price raises
UpdatePriceFails ==
    /\ pc = "update_price_wait"
    /\ Raise
    /\ UNCHANGED <<program, run, chunk_list, chunk_i, sent, acked,
                   shared, cvars, dvars, fvars>>

\* seller.main: the loop over the price chunks is over, main returns
PricesUploaded ==
    /\ pc = "update_price"
    /\ chunk_i > Len(chunk_list)
    /\ cycle' = [cycle EXCEPT ![Current] = "Done"]
    /\ pc' = "exit"
    /\ UNCHANGED <<program, acct, run, chunk_list, chunk_i, sent, acked,
                   shared, cvars, dvars, fvars>>

\* market.main: upload_prices(watch_remnants, campaign_id, market_token).
\* upload_prices is an "async def" and the call is not awaited: it builds
\* a coroutine object and drops it, the body of upload_prices never runs.
\* The cycle of the account is over; main goes to the next account.
MarketUploadPricesCall ==
    /\ pc = "upload_prices"
    /\ cycle' = [cycle EXCEPT ![Current] = "Done"]
    /\ IF acct < Len(AccountsOf(program))
       THEN /\ acct' = acct + 1
            /\ pc' = "get_offer_ids"
       ELSE /\ pc' = "exit"
            /\ UNCHANGED acct
    /\ UNCHANGED <<program, run, chunk_list, chunk_i, sent, acked,
                   shared, cvars, dvars, fvars>>

Next ==
    \/ GetOfferIdsCall
    \/ GetOfferIdsReturns
    \/ GetOfferIdsFails
    \/ DownloadStock
    \/ DownloadStockFails
    \/ CreateStocks
    \/ UpdateStocksSend
    \/ UpdateStocksReturns
    \/ UpdateStocksFails
    \/ StocksUploaded
    \/ SellerCreatePrices
    \/ UpdatePriceSend
    \/ UpdatePriceReturns
    \/ UpdatePriceFails
    \/ PricesUploaded
    \/ MarketUploadPricesCall

Spec == InitMain /\ [][Next]_vars

(***************************************************************************)
(* Properties of one reconciliation call.                                  *)
(***************************************************************************)
StocksCalled == called \in {"seller.create_stocks", "market.create_stocks"}

PricesCalled == called \in {"seller.create_prices", "market.create_prices"}

Distinct(seq) == \A h, k \in 1..Len(seq) : h # k => seq[h] # seq[k]

\* offer id and quantity of a stock entry, in the shape of the script called
StockEntryId(e) == IF called = "seller.create_stocks" THEN e.offer_id ELSE e.sku

StockEntryQty(e) ==
    IF called = "seller.create_stocks" THEN e.stock ELSE e.items[1].count

PriceEntryId(e) == IF called = "seller.create_prices" THEN e.offer_id ELSE e.id

\* the records of a remnant list whose code is the offer id
MatchesOf(remnants, id) == { k \in 1..Len(remnants) : PyStr(remnants[k].code) = id }

FirstMatchOf(remnants, id) ==
    CHOOSE k \in MatchesOf(remnants, id) : \A h \in MatchesOf(remnants, id) : k <= h

\* C1: create_stocks(R, C) on a catalog C of distinct offer ids returns
\* exactly |C| stock entries, every offer id of C in exactly one of them,
\* with the mapped quantity of the first remnant of that code, or with 0
\* when no remnant has that code.
C1_OneStockEntryPerOffer ==
    (StocksCalled /\ raised = "none" /\ Distinct(arg_offer_ids)) =>
        /\ Len(stocks) = Len(arg_offer_ids)
        /\ \A j \in 1..Len(arg_offer_ids) :
              LET id == arg_offer_ids[j]
                  at == { k \in 1..Len(stocks) : StockEntryId(stocks[k]) = id }
              IN  /\ Cardinality(at) = 1
                  /\ \A k \in at :
                        StockEntryQty(stocks[k]) =
                            IF MatchesOf(watch_remnants, id) = {} THEN 0
                            ELSE StockOf(watch_remnants[FirstMatchOf(watch_remnants, id)]).val

\* a call with two remnants of one catalog code, of different quantities,
\* and a catalog offer no remnant matches
C1_Witness ==
    /\ StocksCalled /\ raised = "none" /\ Distinct(arg_offer_ids)
    /\ Len(arg_offer_ids) >= 2
    /\ \E id \in OfferIds :
          /\ InList(id, arg_offer_ids)
          /\ Cardinality(MatchesOf(watch_remnants, id)) = 2
          /\ StockOf(watch_remnants[1]).val # StockOf(watch_remnants[2]).val
    /\ \E k \in 1..Len(stocks) :
          /\ MatchesOf(watch_remnants, StockEntryId(stocks[k])) = {}
          /\ StockEntryQty(stocks[k]) = 0

\* the remnant records whose code is in the list, in remnant order
RECURSIVE CodesIn(_, _)
CodesIn(remnants, ids) ==
    IF remnants = <<>> THEN <<>>
    ELSE (IF InList(PyStr(Head(remnants).code), ids)
          THEN <<PyStr(Head(remnants).code)>> ELSE <<>>)
         \o CodesIn(Tail(remnants), ids)

\* C2: create_prices(R, C) returns, in remnant order, one price entry per
\* remnant record whose code is in C (two records of one code give two
\* entries), and no entry for any other offer id.
C2_OnePricePerMatchingRemnant ==
    (PricesCalled /\ raised = "none") =>
        [k \in 1..Len(prices) |-> PriceEntryId(prices[k])]
            = CodesIn(watch_remnants, arg_offer_ids)

\* two remnants of one catalog code priced twice, another catalog offer
\* not priced at all
C2_Witness ==
    /\ PricesCalled /\ raised = "none"
    /\ Len(prices) = 2
    /\ PriceEntryId(prices[1]) = PriceEntryId(prices[2])
    /\ \E j \in 1..Len(arg_offer_ids) :
          MatchesOf(watch_remnants, arg_offer_ids[j]) = {}

\* C4: after create_stocks or create_prices returns, the caller's offer-id
\* list holds the same ids in the same order as before the call.
C4_CallerListUntouched ==
    (called # "none" /\ raised = "none") => offer_ids = arg_offer_ids

\* C11 as claimed: the price entries of a reconciliation number at most |C|
\* and at most |R|.
C11_PricesWithinCatalogAndRemnants ==
    (PricesCalled /\ raised = "none") =>
        /\ Len(prices) <= Len(arg_offer_ids)
        /\ Len(prices) <= Len(watch_remnants)

\* no two remnant records have the same code
DistinctCodes(remnants) ==
    \A h, k \in 1..Len(remnants) :
        h # k => PyStr(remnants[h].code) # PyStr(remnants[k].code)

\* C11 as amended: the price entries number at most |R|; they number at
\* most |C| when no two remnant records share a code (records sharing a
\* code of C are each priced, so the entries can outnumber C).
C11_PricesWithinRemnants ==
    (PricesCalled /\ raised = "none") =>
        /\ Len(prices) <= Len(watch_remnants)
        /\ DistinctCodes(watch_remnants) => Len(prices) <= Len(arg_offer_ids)

\* two records of different codes, one of them in the catalog, one price
\* entry: as many as the catalog has offers, fewer than the remnants
C11_Witness ==
    /\ PricesCalled /\ raised = "none"
    /\ Len(watch_remnants) = 2 /\ DistinctCodes(watch_remnants)
    /\ Len(arg_offer_ids) = 1
    /\ Len(prices) = 1

\* a text that reads as a base-10 integer: digits, after at most one sign
IsDecimal(t) ==
    LET body == IF t # <<>> /\ Head(t) \in {"-", "+"} THEN Tail(t) ELSE t
    IN  body # <<>> /\ \A k \in 1..Len(body) : IsDigit(body[k])

DecimalValue(t) ==
    IF Head(t) = "-" THEN 0 - DigitsVal(Tail(t))
    ELSE IF Head(t) = "+" THEN DigitsVal(Tail(t))
    ELSE DigitsVal(t)

\* QuantityMapper of the specification, on the text of a descriptor
QuantityMapperOk(t) == t = <<">", "1", "0">> \/ t = <<"1">> \/ IsDecimal(t)

QuantityMapper(t) ==
    IF t = <<">", "1", "0">> THEN 100
    ELSE IF t = <<"1">> THEN 0
    ELSE DecimalValue(t)

\* record i is matched: the offer ids equal to its code are not all
\* consumed by the records before it
ConsumesOffer(remnants, ids, i) ==
    Cardinality({ h \in 1..(i - 1) : PyStr(remnants[h].code) = PyStr(remnants[i].code) })
        < Cardinality({ k \in 1..Len(ids) : ids[k] = PyStr(remnants[i].code) })

\* the matched records, in remnant order
MatchedRecords(remnants, ids) ==
    SelectSeq([i \in 1..Len(remnants) |-> i],
              LAMBDA i : ConsumesOffer(remnants, ids, i))

\* C12: the quantity of a matched stock entry is QuantityMapper of the
\* record's descriptor: 100 for ">10", 0 for "1", else its base-10 integer
\* value; when the descriptor of a matched record is none of these,
\* create_stocks raises and returns no stock entry.
C12_MatchedQuantityIsMapped ==
    StocksCalled =>
        LET m == MatchedRecords(watch_remnants, arg_offer_ids)
            bad == \E k \in 1..Len(m) :
                       ~QuantityMapperOk(PyStr(watch_remnants[m[k]].qty))
        IN  /\ bad <=> raised # "none"
            /\ bad => (raised \in {"ValueError", "TypeError"} /\ stocks = <<>>)
            /\ ~bad =>
                  /\ Len(stocks) >= Len(m)
                  /\ \A k \in 1..Len(m) :
                        /\ StockEntryId(stocks[k]) = PyStr(watch_remnants[m[k]].code)
                        /\ StockEntryQty(stocks[k])
                              = QuantityMapper(PyStr(watch_remnants[m[k]].qty))

\* a call that matched a ">10" record and a "1" record: 100 and 0
C12_Witness ==
    /\ StocksCalled /\ raised = "none"
    /\ Len(watch_remnants) = 2 /\ Len(stocks) >= 2
    /\ PyStr(watch_remnants[1].qty) = <<">", "1", "0">>
    /\ PyStr(watch_remnants[2].qty) = <<"1">>
    /\ StockEntryQty(stocks[1]) = 100
    /\ StockEntryQty(stocks[2]) = 0
    /\ StockEntryId(stocks[2]) = PyStr(watch_remnants[2].code)

\* the text before the first "." holds a digit
HasDigitBeforeDot(t) ==
    \E k \in 1..Len(SplitDotFirst(t)) : IsDigit(SplitDotFirst(t)[k])

\* the records create_prices prices: those whose code is in the list
PricedRecords(remnants, ids) ==
    SelectSeq([i \in 1..Len(remnants) |-> i],
              LAMBDA i : InList(PyStr(remnants[i].code), ids))

\* C13: pricing a record whose price text has no digit before the first
\* "." fails, so create_prices returns no entry there; every price entry
\* it does return carries the number formed by the digits before the first
\* ".", never an empty or non-numeric price.
C13_NoEmptyPriceEntry ==
    PricesCalled =>
        LET m == PricedRecords(watch_remnants, arg_offer_ids)
            bad == \E k \in 1..Len(m) :
                       \/ watch_remnants[m[k]].price.t # "str"
                       \/ ~HasDigitBeforeDot(watch_remnants[m[k]].price.v)
        IN  /\ bad => raised # "none"
            /\ raised = "none" =>
                  \A k \in 1..Len(prices) :
                      IF called = "seller.create_prices"
                      THEN /\ prices[k].price # <<>>
                           /\ \A j \in 1..Len(prices[k].price) :
                                 IsDigit(prices[k].price[j])
                      ELSE prices[k].price.value \in Nat

(***************************************************************************)
(* Properties of divide.                                                   *)
(***************************************************************************)
RECURSIVE Flatten(_)
Flatten(cs) == IF cs = <<>> THEN <<>> ELSE Head(cs) \o Flatten(Tail(cs))

\* C5: for n >= 1 the chunks of divide(L, n), concatenated in order, are L;
\* every chunk but the last has exactly n elements, the last has 1..n, and
\* an empty L gives no chunk.
C5_ChunksPartitionTheList ==
    (div_state # "ready" /\ n >= 1) =>
        /\ div_state = "returned"
        /\ Flatten(chunks) = lst
        /\ \A k \in 1..(Len(chunks) - 1) : Len(chunks[k]) = n
        /\ chunks # <<>> =>
              (Len(chunks[Len(chunks)]) >= 1 /\ Len(chunks[Len(chunks)]) <= n)
        /\ lst = <<>> => chunks = <<>>

\* a list cut into two full chunks and a shorter last one
C5_Witness ==
    /\ div_state = "returned" /\ n = 2 /\ Len(lst) = 2 * n + 1
    /\ Len(chunks) = 3 /\ Len(chunks[3]) = 1
    /\ Flatten(chunks) = lst

\* C6: for n <= 0 divide(L, n) ends in an error and gives no chunk; it
\* never returns a chunk sequence.
C6_NonPositiveSizeRaises ==
    (div_state # "ready" /\ n <= 0) =>
        (div_state = "raised" /\ div_err = "ValueError" /\ chunks = <<>>)

(***************************************************************************)
(* Properties of get_offer_ids.                                            *)
(***************************************************************************)
RECURSIVE PagesOf(_, _)
\* the entries of the first k answers
PagesOf(resps, k) == IF k = 0 THEN <<>> ELSE PagesOf(resps, k - 1) \o resps[k].entries

RECURSIVE PagesIds(_)
\* the shopSku of the entries of the pages, in page order
PagesIds(resps) ==
    IF resps = <<>> THEN <<>>
    ELSE [k \in 1..Len(Head(resps).entries) |-> Head(resps).entries[k].offer.shopSku]
         \o PagesIds(Tail(resps))

\* a token that ends the chain of pages: empty or absent
EndsChain(t) == t = TokEmpty \/ t = PyNone

\* C7: with page tokens, the first request carries the empty token and
\* every next one the token of the page before; the call goes on as long as
\* the pages carry a token, and at the first page whose token is empty or
\* absent, the k-th, it stops after exactly k requests and returns the offer
\* ids of the k pages in page order.
C7_CursorChainFollowed ==
    strategy = "CursorToken" =>
        /\ req_log # <<>> => req_log[1] = TokEmpty
        /\ \A k \in 2..Len(req_log) : req_log[k] = resp_log[k - 1].next
        /\ \A k \in 1..(Len(resp_log) - 1) : ~EndsChain(resp_log[k].next)
        /\ fetch_state = "looping" =>
              (\A k \in 1..Len(resp_log) : ~EndsChain(resp_log[k].next))
        /\ (resp_log # <<>> /\ EndsChain(resp_log[Len(resp_log)].next)) =>
              /\ fetch_state = "returned"
              /\ Len(req_log) = Len(resp_log)
              /\ fetched = PagesIds(resp_log)
        /\ fetch_state = "returned" =>
              (resp_log # <<>> /\ EndsChain(resp_log[Len(resp_log)].next))

\* a chain of three pages, the last with an empty token, fetched whole
C7_Witness ==
    /\ strategy = "CursorToken" /\ fetch_state = "returned"
    /\ Len(req_log) = 3
    /\ req_log = <<TokEmpty, TokP1, TokP2>>
    /\ resp_log[3].next = TokEmpty
    /\ fetched = <<TxtA, TxtA, TxtB>>

\* C8: a response that returns the same cursor as the response before it
\* (or, with counts, a count that has passed total and can never equal it)
\* is not followed by another request: the fetch ends.
C8_StallEndsTheFetch ==
    \A k \in 2..Len(resp_log) :
        ((resp_log[k].next = resp_log[k - 1].next)
            \/ (strategy = "OffsetCount"
                  /\ Len(PagesOf(resp_log, k)) > resp_log[k].total))
        => Len(req_log) <= k

(***************************************************************************)
(* Properties of main.                                                     *)
(***************************************************************************)
\* the upload requests of one kind among the requests sent
RequestsOf(kind) == SelectSeq(sent, LAMBDA q : q.kind = kind)

\* the price entries the current cycle uploaded through update_price
PricesSent ==
    Flatten([k \in 1..Len(RequestsOf("prices")) |-> RequestsOf("prices")[k].chunk])

MainPriceId(e) == IF program = "seller" THEN e.offer_id ELSE e.id

\* the price of every record to be priced can be read
Priceable(remnants, ids) ==
    /\ seller_create_prices(remnants, ids).err = "none"
    /\ market_create_prices(remnants, ids).err = "none"

\* C3: a cycle that reaches Done has uploaded through update_price one
\* price entry for every remnant record whose code is in the catalog
\* fetched for the account; when there is such a record, at least one
\* non-empty price chunk was uploaded.
C3_DoneMeansPricesUploaded ==
    (/\ run.acct # "none"
     /\ cycle[run.acct] = "Done"
     /\ Priceable(watch_remnants, run.catalog)) =>
        /\ [k \in 1..Len(PricesSent) |-> MainPriceId(PricesSent[k])]
              = CodesIn(watch_remnants, run.catalog)
        /\ CodesIn(watch_remnants, run.catalog) # <<>> =>
              \E k \in 1..Len(sent) : sent[k].kind = "prices" /\ sent[k].chunk # <<>>

\* the requests that send the first k chunks of a batch
ChunkRequests(kind, a, cl, k) ==
    [j \in 1..k |-> [kind |-> kind, acct |-> a, chunk |-> cl[j]]]

C10_FailureDoesNotStopTheOthers ==
    (pc = "exit" /\ \E a \in DOMAIN cycle : cycle[a] = "Failed") =>
        \A a \in DOMAIN cycle : cycle[a] # "Idle"

\* C10 as amended: when a cycle ends in Failed the run ends there and no
\* account that follows it in the list is attempted; an account reaches
\* Fetching only when the cycle of every account before it reached Done.
C10_FirstFailureEndsTheRun ==
    program # "none" =>
        /\ (\E a \in DOMAIN cycle : cycle[a] = "Failed") => pc = "exit"
        /\ \A i, j \in 1..Len(AccountsOf(program)) :
              i < j =>
                /\ cycle[AccountsOf(program)[i]] = "Failed"
                      => cycle[AccountsOf(program)[j]] = "Idle"
                /\ cycle[AccountsOf(program)[j]] # "Idle"
                      => cycle[AccountsOf(program)[i]] = "Done"

\* the FBS cycle failed while uploading and DBS was never attempted
C10_Witness ==
    /\ program = "market" /\ pc = "exit"
    /\ cycle["FBS"] = "Failed" /\ cycle["DBS"] = "Idle"
    /\ sent # <<>>

=============================================================================
